---------------------------- MODULE Spec2Model ----------------------------
(***************************************************************************)
(* A model of magpylib's Collection class                                  *)
(* (src/magpylib/_lib/classes/collection.py): the registry of source       *)
(* references (constructor, addSources, removeSource), the transform       *)
(* broadcast (move, rotate) and the field superposition (getB, getBsweep). *)
(*                                                                         *)
(* Objects are identified by integers: the sources are 1, 2 and 3, the two *)
(* Collection objects are 4 and 5.  A sources list is a sequence           *)
(* of object identities, so that "a Collection inside the list" is a       *)
(* well-formed (wrong) state.  Rotations are restricted to multiples of 90 *)
(* degrees about coordinate axes, where the angle-axis rotation is exact   *)
(* in integer arithmetic.                                                  *)
(***************************************************************************)
EXTENDS Integers, Sequences, FiniteSets, TLC

\* ------------------------------------------------------------------ bounds
MaxLen == 3         \* cap on the length of a sources list
MaxOps == 2         \* cap on the number of move/rotate calls in one behaviour

\* object identities: three Source objects and two Collection objects
Src == {1, 2, 3}
ColA == Cardinality(Src) + 1
ColB == Cardinality(Src) + 2
Col == {ColA, ColB}

VARIABLES
    sources,      \* sources[c]: the list Collection c holds (self.sources)
    position,     \* position[s]: Source s's position, a 3-vector
    orientation,  \* orientation[s]: Source s's angle/axis, as its rotation matrix
    nops,         \* number of move/rotate calls made so far
    last          \* the last call: its name, its receiver, how it ended, what it returned

vars == <<sources, position, orientation, nops, last>>

\* ------------------------------------------------------------ sequences
Range(q) == {q[i] : i \in 1..Len(q)}

\* number of occurrences of x in the list q
Count(x, q) == Cardinality({i \in 1..Len(q) : q[i] = x})

\* x in q  (Python's  x in list)
Contains(q, x) == \E i \in 1..Len(q) : q[i] = x

\* faulty variant: index of the last occurrence of x in q
LastIndex(q, x) == CHOOSE i \in 1..Len(q) : q[i] = x /\ \A j \in (i+1)..Len(q) : q[j] # x

\* index of the first occurrence of x in q (x is in q)
FirstIndex(q, x) == CHOOSE i \in 1..Len(q) : q[i] = x /\ \A j \in 1..(i-1) : q[j] # x

\* q without its i-th entry
RemoveAt(q, i) == SubSeq(q, 1, i-1) \o SubSeq(q, i+1, Len(q))

\* ------------------------------------------------------------ arguments
\* An argument of the constructor or of addSources: a Source, a Collection,
\* a list/tuple (of sources), or something that is none of these.
SrcArg(s)  == [t |-> "src",  v |-> <<s>>]
ColArg(c)  == [t |-> "col",  v |-> <<c>>]
ListArg(l) == [t |-> "list", v |-> l]
BadArg     == [t |-> "bad",  v |-> <<>>]

\* utility.isSource(s): the argument is a Source object
isSource(s) == s.t = "src"

\* ---------------------------------------------------------------- registry
\* utility.addUniqueSource(source, sourceList): append unless already in the list
\* (a duplicate is skipped with a warning).
addUniqueSource(s, sourceList) ==
    IF Contains(sourceList, s) THEN sourceList ELSE sourceList \o <<s>>

RECURSIVE AddEach(_, _, _)
AddEach(sourceList, inputList, i) ==
    IF i > Len(inputList) THEN sourceList
    ELSE AddEach(addUniqueSource(inputList[i], sourceList), inputList, i + 1)

\* utility.addListToCollection(sourceList, inputList, dupWarning)
addListToCollection(sourceList, inputList, dupWarning) ==
    IF dupWarning THEN AddEach(sourceList, inputList, 1)
    ELSE sourceList \o inputList

\* One iteration of the loop "for s in sources" of addSources: the list after
\* argument s is handled.  members is s.sources when s is a Collection.
\* faulty variant: the duplicate check is never made
AddSourceNoCheck(cur, s, members, dupWarning) ==
    CASE s.t = "col"  -> addListToCollection(cur, members, FALSE)
      [] s.t = "list" -> addListToCollection(cur, s.v, FALSE)
      [] OTHER        -> cur \o s.v

\* faulty variant: a Collection argument is appended as one entry instead of flattened
AddSourceNested(cur, s, members, dupWarning) ==
    CASE s.t = "col"  -> cur \o s.v
      [] s.t = "list" -> addListToCollection(cur, s.v, dupWarning)
      [] OTHER        -> IF dupWarning = TRUE THEN addUniqueSource(s.v[1], cur)
                         ELSE cur \o s.v

AddSource(cur, s, members, dupWarning) ==
    CASE s.t = "col"  -> addListToCollection(cur, members, dupWarning)
      [] s.t = "list" -> addListToCollection(cur, s.v, dupWarning)
      [] OTHER        -> IF dupWarning = TRUE THEN addUniqueSource(s.v[1], cur)
                         ELSE cur \o s.v

\* faulty variant: an argument that fails the assertion is reported and passed
\* over, and the arguments after it are still added
RECURSIVE AddLoopSkip(_, _, _, _, _, _)
AddLoopSkip(state, self, cur, args, dupWarning, i) ==
    IF i > Len(args) THEN [list |-> cur, failed |-> 0]
    ELSE IF args[i].t \notin {"col", "list"} /\ ~isSource(args[i])
         THEN [list |-> AddLoopSkip(state, self, cur, args, dupWarning, i + 1).list,
               failed |-> i]
    ELSE LET members == IF args[i].t # "col" THEN <<>>
                        ELSE IF args[i].v[1] = self THEN cur
                        ELSE state[args[i].v[1]]
         IN  AddLoopSkip(state, self, AddSource(cur, args[i], members, dupWarning),
                         args, dupWarning, i + 1)

\* The loop of addSources / of the constructor over the arguments args[i..]:
\* the list it ends with, and the index of the argument whose assertion
\* failed (0: none).  self is the receiver (0 for the constructor, whose
\* object no argument can alias): an argument that is the receiver itself
\* reads the list as it is when the loop reaches it.
RECURSIVE AddLoop(_, _, _, _, _, _)
AddLoop(state, self, cur, args, dupWarning, i) ==
    IF i > Len(args) THEN [list |-> cur, failed |-> 0]
    ELSE IF args[i].t \notin {"col", "list"} /\ ~isSource(args[i])
         THEN [list |-> cur, failed |-> i]
    ELSE LET members == IF args[i].t # "col" THEN <<>>
                        ELSE IF args[i].v[1] = self THEN cur
                        ELSE state[args[i].v[1]]
         IN  AddLoop(state, self, AddSource(cur, args[i], members, dupWarning),
                     args, dupWarning, i + 1)

\* ------------------------------------------------------------------ values
NoVal == [kind |-> "none", n |-> 0, vec |-> <<>>, list |-> <<>>]
RefVal(s) == [kind |-> "ref", n |-> s, vec |-> <<>>, list |-> <<>>]
ScalarVal(n) == [kind |-> "scalar", n |-> n, vec |-> <<>>, list |-> <<>>]
VecVal(v) == [kind |-> "vec", n |-> 0, vec |-> v, list |-> <<>>]
ListVal(l) == [kind |-> "list", n |-> 0, vec |-> <<>>, list |-> l]

\* The record of a call: op on receiver c, how it ended (status, err), what it
\* returned (ret), and its inputs: the argument tuple and dupWarning of a
\* construction or addition, the reference of a removal, the points of an
\* evaluation or the displacement of a move, the angle, axis and anchor of a
\* rotation.  partial is self.sources of a constructor at the moment it raised.
NoRef == [t |-> "none", n |-> 0]
Call(op, c, status, err, ret, args, dupWarning, ref, pts) ==
    [op |-> op, col |-> c, status |-> status, err |-> err, ret |-> ret,
     args |-> args, dupWarning |-> dupWarning, ref |-> ref, pts |-> pts,
     angle |-> 0, axis |-> <<0, 0, 0>>, anchor |-> [self |-> TRUE, p |-> <<0, 0, 0>>],
     partial |-> <<>>]

\* -------------------------------------------------------------------- Init
Zero3 == <<0, 0, 0>>
Identity == <<<<1, 0, 0>>, <<0, 1, 0>>, <<0, 0, 1>>>>

Init ==
    /\ sources = [c \in Col |-> <<>>]
    /\ position = [s \in Src |-> Zero3]
    /\ orientation = [s \in Src |-> Identity]
    /\ nops = 0
    /\ last = Call("init", 0, "ok", "", NoVal, <<>>, FALSE, NoRef, <<>>)

\* ----------------------------------------------------------------- actions
Fits(c, list) == Len(list) <= MaxLen

\* c = Collection(*args, dupWarning=dupWarning): a new object, bound to c when
\* the constructor returns; when it raises, no object is bound.
Collection(c, args, dupWarning) ==
    LET r == AddLoop(sources, 0, <<>>, args, dupWarning, 1) IN
    /\ Fits(c, r.list)
    /\ IF r.failed = 0
       THEN /\ sources' = [sources EXCEPT ![c] = r.list]
            /\ last' = Call("Collection", c, "ok", "", NoVal, args, dupWarning, NoRef, <<>>)
       ELSE /\ sources' = sources
            /\ last' = [Call("Collection", c, "raised", "AssertionError", NoVal, args,
                             dupWarning, NoRef, <<>>) EXCEPT !.partial = r.list]
    /\ UNCHANGED <<position, orientation, nops>>

\* faulty variant: the new members are put in front of the existing ones
addSourcesFront(c, args, dupWarning) ==
    LET r == AddLoop(sources, c, sources[c], args, dupWarning, 1)
        added == SubSeq(r.list, Len(sources[c]) + 1, Len(r.list)) IN
    /\ Fits(c, r.list)
    /\ sources' = [sources EXCEPT ![c] = added \o sources[c]]
    /\ last' = IF r.failed = 0
               THEN Call("addSources", c, "ok", "", NoVal, args, dupWarning, NoRef, <<>>)
               ELSE Call("addSources", c, "raised", "AssertionError", NoVal, args, dupWarning, NoRef, <<>>)
    /\ UNCHANGED <<position, orientation, nops>>

\* c.addSources(*args, dupWarning=dupWarning)
addSources(c, args, dupWarning) ==
    LET r == AddLoop(sources, c, sources[c], args, dupWarning, 1) IN
    /\ Fits(c, r.list)
    /\ sources' = [sources EXCEPT ![c] = r.list]
    /\ last' = IF r.failed = 0
               THEN Call("addSources", c, "ok", "", NoVal, args, dupWarning, NoRef, <<>>)
               ELSE Call("addSources", c, "raised", "AssertionError", NoVal, args, dupWarning, NoRef, <<>>)
    /\ UNCHANGED <<position, orientation, nops>>


\* A reference handed to removeSource: an int, a Source, or neither.
IntRef(i) == [t |-> "int", n |-> i]
SrcRef(s) == [t |-> "src", n |-> s]
BadRef    == [t |-> "bad", n |-> 0]

\* faulty variant: the index is ignored: the last entry is popped
PopLast(i, n) == IF n > 0 THEN n ELSE 0

\* list.pop(i): the 1-based place Python's index i names in a list of n entries
\* (0: out of range, also any index on an empty list)
PopPlace(i, n) ==
    IF i >= 0 THEN (IF i < n THEN i + 1 ELSE 0)
    ELSE (IF -i <= n THEN n + i + 1 ELSE 0)

\* c.removeSource(source_ref)
removeSource(c, ref) ==
    /\ UNCHANGED <<position, orientation, nops>>
    /\ IF ref.t = "bad"
       THEN /\ sources' = sources
            /\ last' = Call("removeSource", c, "raised", "AssertionError", NoVal, <<>>, FALSE, ref, <<>>)
       ELSE IF ref.t = "int"
       THEN LET k == PopPlace(ref.n, Len(sources[c])) IN
            IF k = 0
            THEN /\ sources' = sources
                 /\ last' = Call("removeSource", c, "raised", "IndexError", NoVal, <<>>, FALSE, ref, <<>>)
            ELSE /\ sources' = [sources EXCEPT ![c] = RemoveAt(@, k)]
                 /\ last' = Call("removeSource", c, "ok", "", RefVal(sources[c][k]), <<>>, FALSE, ref, <<>>)
       ELSE IF ~Contains(sources[c], ref.n)
            THEN /\ sources' = sources
                 /\ last' = Call("removeSource", c, "raised", "ValueError", NoVal, <<>>, FALSE, ref, <<>>)
            ELSE /\ sources' = [sources EXCEPT ![c] = RemoveAt(@, FirstIndex(@, ref.n))]
                 /\ last' = Call("removeSource", c, "ok", "", RefVal(ref.n), <<>>, FALSE, ref, <<>>)

\* ------------------------------------------------------------- 3-vectors
VecAdd(u, v) == <<u[1] + v[1], u[2] + v[2], u[3] + v[3]>>
VecSub(u, v) == <<u[1] - v[1], u[2] - v[2], u[3] - v[3]>>
Scale(a, v) == <<a * v[1], a * v[2], a * v[3]>>
Dot(u, v) == u[1] * v[1] + u[2] * v[2] + u[3] * v[3]
Cross(u, v) == <<u[2] * v[3] - u[3] * v[2], u[3] * v[1] - u[1] * v[3], u[1] * v[2] - u[2] * v[1]>>
Sign(x) == IF x > 0 THEN 1 ELSE IF x < 0 THEN -1 ELSE 0

\* the unit vector of an axis that lies along a coordinate axis
Normalize(axis) == <<Sign(axis[1]), Sign(axis[2]), Sign(axis[3])>>

\* cosine and sine of a multiple of 90 degrees
Cos(angle) == CASE angle % 360 = 0 -> 1 [] angle % 360 = 180 -> -1 [] OTHER -> 0
Sin(angle) == CASE angle % 360 = 90 -> 1 [] angle % 360 = 270 -> -1 [] OTHER -> 0

\* mathLibPrivate.angleAxisRotation(angle, axis, v): v rotated by angle about the
\* normalized axis through the origin (Rodrigues' formula)
angleAxisRotation(angle, axis, v) ==
    LET k == Normalize(axis) IN
    VecAdd(VecAdd(Scale(Cos(angle), v), Scale(Sin(angle), Cross(k, v))),
           Scale(Dot(k, v) * (1 - Cos(angle)), k))

\* rotateVector(vector, angle, axis, anchor): rotate about the axis through anchor
rotateVector(v, angle, axis, anchor) ==
    VecAdd(angleAxisRotation(angle, axis, VecSub(v, anchor)), anchor)

\* The orientation an angle/axis pair stands for: the images of the three basis
\* vectors under the rotation.
getRotMat(angle, axis) ==
    <<angleAxisRotation(angle, axis, <<1, 0, 0>>),
      angleAxisRotation(angle, axis, <<0, 1, 0>>),
      angleAxisRotation(angle, axis, <<0, 0, 1>>)>>

\* orientation M applied to v
MatVec(M, v) == VecAdd(VecAdd(Scale(v[1], M[1]), Scale(v[2], M[2])), Scale(v[3], M[3]))

\* composeOrientation: the existing orientation followed by the incoming rotation
composeOrientation(M, angle, axis) ==
    <<angleAxisRotation(angle, axis, M[1]),
      angleAxisRotation(angle, axis, M[2]),
      angleAxisRotation(angle, axis, M[3])>>

\* ------------------------------------------------------------ transforms
\* the anchor argument of rotate: the default 'self.position', or a point
SelfAnchor == [self |-> TRUE, p |-> Zero3]
PointAnchor(p) == [self |-> FALSE, p |-> p]

\* Source.move(displacement) on the positions pos
SourceMove(pos, s, displacement) ==
    [pos EXCEPT ![s] = VecAdd(@, displacement)]

\* Source.rotate(angle, axis, anchor) on the poses <<positions, orientations>>
SourceRotate(pose, s, angle, axis, anchor) ==
    LET pivot == IF anchor.self THEN pose[1][s] ELSE anchor.p IN
    << [pose[1] EXCEPT ![s] = rotateVector(@, angle, axis, pivot)],
       [pose[2] EXCEPT ![s] = composeOrientation(@, angle, axis)] >>

RECURSIVE MoveLoop(_, _, _, _)
MoveLoop(pos, list, displacement, i) ==
    IF i > Len(list) THEN pos
    ELSE MoveLoop(SourceMove(pos, list[i], displacement), list, displacement, i + 1)

RECURSIVE RotateLoop(_, _, _, _, _, _)
RotateLoop(pose, list, angle, axis, anchor, i) ==
    IF i > Len(list) THEN pose
    ELSE RotateLoop(SourceRotate(pose, list[i], angle, axis, anchor),
                    list, angle, axis, anchor, i + 1)

\* faulty variant: every Source of the list is moved once, however often it occurs
moveOnce(c, displacement) ==
    /\ nops < MaxOps
    /\ nops' = nops + 1
    /\ position' = [s \in Src |-> IF s \in Range(sources[c])
                                  THEN VecAdd(position[s], displacement) ELSE position[s]]
    /\ last' = Call("move", c, "ok", "", NoVal, <<>>, FALSE, NoRef, <<displacement>>)
    /\ UNCHANGED <<sources, orientation>>

\* c.move(displacement)
move(c, displacement) ==
    /\ nops < MaxOps
    /\ nops' = nops + 1
    /\ position' = MoveLoop(position, sources[c], displacement, 1)
    /\ last' = Call("move", c, "ok", "", NoVal, <<>>, FALSE, NoRef, <<displacement>>)
    /\ UNCHANGED <<sources, orientation>>

\* faulty variant: the default anchor is taken to be the origin
rotateAboutOrigin(c, angle, axis, anchor) ==
    LET pivot == IF anchor.self THEN PointAnchor(Zero3) ELSE anchor
        r == RotateLoop(<<position, orientation>>, sources[c], angle, axis, pivot, 1) IN
    /\ nops < MaxOps
    /\ nops' = nops + 1
    /\ position' = r[1]
    /\ orientation' = r[2]
    /\ last' = [Call("rotate", c, "ok", "", NoVal, <<>>, FALSE, NoRef, <<>>)
                   EXCEPT !.angle = angle, !.axis = axis, !.anchor = anchor]
    /\ UNCHANGED sources

\* faulty variant: the anchor is not passed on to the members
rotateInPlace(c, angle, axis, anchor) ==
    LET r == RotateLoop(<<position, orientation>>, sources[c], angle, axis, SelfAnchor, 1) IN
    /\ nops < MaxOps
    /\ nops' = nops + 1
    /\ position' = r[1]
    /\ orientation' = r[2]
    /\ last' = [Call("rotate", c, "ok", "", NoVal, <<>>, FALSE, NoRef, <<>>)
                   EXCEPT !.angle = angle, !.axis = axis, !.anchor = anchor]
    /\ UNCHANGED sources

\* c.rotate(angle, axis, anchor)
rotate(c, angle, axis, anchor) ==
    LET r == RotateLoop(<<position, orientation>>, sources[c], angle, axis, anchor, 1) IN
    /\ nops < MaxOps
    /\ nops' = nops + 1
    /\ position' = r[1]
    /\ orientation' = r[2]
    /\ last' = [Call("rotate", c, "ok", "", NoVal, <<>>, FALSE, NoRef, <<>>)
                   EXCEPT !.angle = angle, !.axis = axis, !.anchor = anchor]
    /\ UNCHANGED sources

\* ------------------------------------------------------------------ fields
\* A source's canonical magnetization/moment (pose-independent).
Moment(s) == <<0, 0, s>>

\* Source.getB(pos): the source's field at pos under its current pose.  The
\* field law is the source's own; this stand-in depends on the source, on its
\* position and orientation and on the point.
SourceGetB(pos, ori, s, P) ==
    VecVal(VecAdd(MatVec(ori[s], Moment(s)), VecSub(P, pos[s])))

\* Source.getBsweep(pos, multiprocessing, processes): one field per point
SourceGetBsweep(pos, ori, s, pts, multiprocessing) ==
    [i \in 1..Len(pts) |-> SourceGetB(pos, ori, s, pts[i])]

\* a + b on Python ints and numpy arrays (a scalar is broadcast over an array)
PyAdd(a, b) ==
    CASE a.kind = "scalar" /\ b.kind = "scalar" -> ScalarVal(a.n + b.n)
      [] a.kind = "scalar" /\ b.kind = "vec" ->
             VecVal(<<a.n + b.vec[1], a.n + b.vec[2], a.n + b.vec[3]>>)
      [] a.kind = "vec" /\ b.kind = "scalar" ->
             VecVal(<<a.vec[1] + b.n, a.vec[2] + b.n, a.vec[3] + b.n>>)
      [] OTHER -> VecVal(VecAdd(a.vec, b.vec))

\* sum(values): Python's builtin, which starts from the int 0
RECURSIVE PySum(_, _, _)
PySum(acc, values, i) ==
    IF i > Len(values) THEN acc
    ELSE PySum(PyAdd(acc, values[i]), values, i + 1)

\* faulty variant: the last member is left out of the sum
GetBDropLast(list, pos, ori, P) ==
    PySum(ScalarVal(0), [i \in 1..(Len(list) - 1) |-> SourceGetB(pos, ori, list[i], P)], 1)

\* Collection.getB(pos) as a function of the state
GetB(list, pos, ori, P) ==
    PySum(ScalarVal(0), [i \in 1..Len(list) |-> SourceGetB(pos, ori, list[i], P)], 1)

\* isPosVector(item)
isPosVector(item) == Len(item) = 3

\* the inner loop "for src in range(len(self.sources))" of getBsweep at point p
RECURSIVE SweepPoint(_, _, _, _)
SweepPoint(acc, calcFields, p, src) ==
    IF src > Len(calcFields) THEN acc
    ELSE SweepPoint(VecAdd(acc, calcFields[src][p].vec), calcFields, p, src + 1)

\* Collection.getBsweep(pos, multiprocessing, processes), past its assertion
GetBsweep(list, pos, ori, pts, multiprocessing) ==
    LET calcFields == [k \in 1..Len(list) |->
                          SourceGetBsweep(pos, ori, list[k], pts, multiprocessing)]
    IN  ListVal([p \in 1..Len(pts) |-> VecVal(SweepPoint(Zero3, calcFields, p, 1))])

\* A member's field evaluation raises at a singular point of its geometry; the
\* stand-in singularity of a source is its own position.
Singular(pos, s, P) == P = pos[s]

\* some s.getB / s.getBsweep of the list raises on the points pts
MemberRaises(list, pos, pts) ==
    \E k \in 1..Len(list) : \E i \in 1..Len(pts) : Singular(pos, list[k], pts[i])

\* c.getB(P): an exception of a member leaves the list comprehension, and the
\* call, before anything is summed
getB(c, P) ==
    /\ last' = IF MemberRaises(sources[c], position, <<P>>)
               THEN Call("getB", c, "raised", "FieldEvaluationError", NoVal,
                         <<>>, FALSE, NoRef, <<P>>)
               ELSE Call("getB", c, "ok", "", GetB(sources[c], position, orientation, P),
                         <<>>, FALSE, NoRef, <<P>>)
    /\ UNCHANGED <<sources, position, orientation, nops>>

\* faulty variant: a member whose evaluation raises is left out, and the sums
\* over the other members are returned
getBsweepPartial(c, pts, multiprocessing) ==
    LET ok(s) == ~MemberRaises(<<s>>, position, pts) IN
    /\ last' = IF ~ \A i \in 1..Len(pts) : isPosVector(pts[i])
               THEN Call("getBsweep", c, "raised", "AssertionError", NoVal,
                         <<>>, multiprocessing, NoRef, pts)
               ELSE Call("getBsweep", c, "ok", "",
                         GetBsweep(SelectSeq(sources[c], ok), position, orientation, pts,
                                   multiprocessing),
                         <<>>, multiprocessing, NoRef, pts)
    /\ UNCHANGED <<sources, position, orientation, nops>>

\* c.getBsweep(pts, multiprocessing=multiprocessing): the assertion on the
\* points, then every member's own sweep (an exception of one leaves the
\* call), then the sums
getBsweep(c, pts, multiprocessing) ==
    /\ last' = IF ~ \A i \in 1..Len(pts) : isPosVector(pts[i])
               THEN Call("getBsweep", c, "raised", "AssertionError", NoVal,
                         <<>>, multiprocessing, NoRef, pts)
               ELSE IF MemberRaises(sources[c], position, pts)
               THEN Call("getBsweep", c, "raised", "FieldEvaluationError", NoVal,
                         <<>>, multiprocessing, NoRef, pts)
               ELSE Call("getBsweep", c, "ok", "",
                         GetBsweep(sources[c], position, orientation, pts, multiprocessing),
                         <<>>, multiprocessing, NoRef, pts)
    /\ UNCHANGED <<sources, position, orientation, nops>>

\* ---------------------------------------------------------------- inputs
\* lists/tuples handed to the constructor and to addSources
ListArgs == {<<1, 2>>, <<3, 3>>}

ArgItems == {SrcArg(s) : s \in Src} \cup {ColArg(c) : c \in Col}
            \cup {ListArg(l) : l \in ListArgs} \cup {BadArg}

\* argument tuples: none, one, two or three arguments
ArgTuples == {<<>>} \cup {<<a>> : a \in ArgItems}
             \cup { <<ColArg(ColB), SrcArg(3)>>, <<SrcArg(3), ColArg(ColA)>>,
                    <<SrcArg(1), SrcArg(1)>>, <<SrcArg(2), BadArg>>,
                    <<BadArg, SrcArg(2)>>, <<ListArg(<<1, 2>>), SrcArg(1)>>,
                    <<ColArg(ColB), BadArg, SrcArg(3)>> }

\* argument tuples of sources only, for the other collection
SrcTuples == { <<>>, <<SrcArg(1), SrcArg(2)>>, <<SrcArg(2), SrcArg(2)>>, <<SrcArg(3)>> }

\* the sources the moved and the evaluated collection is built from
Pair == {1, 2}

Refs == {IntRef(i) : i \in (-(MaxLen + 1))..MaxLen}
        \cup {SrcRef(s) : s \in Src} \cup {BadRef}

Displacements == {<<1, 1, 1>>, <<-1, 0, 2>>}
Angles == {90, 180}
Axes == {<<0, 1, 0>>, <<0, 0, 2>>}
Anchors == {SelfAnchor, PointAnchor(<<1, 0, 0>>)}
Points == {<<1, 0, 1>>, <<0, 2, 0>>}
\* point sequences for a sweep; <<0, 0>> is not a position vector
Sweeps == { <<>>, <<<<0, 2, 0>>>>, <<<<1, 0, 1>>, <<0, 2, 0>>>>, <<<<1, 0, 1>>, <<0, 0>>>> }

\* ------------------------------------------------------- specifications
Construct == \E args \in ArgTuples, dupWarning \in BOOLEAN : Collection(ColA, args, dupWarning)
ConstructOther == \E args \in SrcTuples, dupWarning \in BOOLEAN : Collection(ColB, args, dupWarning)
Add == \E args \in ArgTuples, dupWarning \in BOOLEAN : addSources(ColA, args, dupWarning)
Remove == \E ref \in Refs : removeSource(ColA, ref)

\* the registry: construction, addition, removal
Next == Construct \/ ConstructOther \/ Add \/ Remove
Spec == Init /\ [][Next]_vars

\* one collection built from single sources, then moved and rotated
AddOne == \E s \in Pair, dupWarning \in BOOLEAN : addSources(ColA, <<SrcArg(s)>>, dupWarning)
Move == \E d \in Displacements : move(ColA, d)
Rotate == \E angle \in Angles, axis \in Axes, anchor \in Anchors :
              rotate(ColA, angle, axis, anchor)

NextMove == AddOne \/ Move \/ Rotate
SpecMove == Init /\ [][NextMove]_vars

\* one collection built from single sources, posed, and evaluated
Turn == rotate(ColA, 90, <<0, 1, 0>>, SelfAnchor)
Shift == move(ColA, <<1, 1, 1>>)
RemoveLast == removeSource(ColA, IntRef(-1))
Field == \E P \in Points : getB(ColA, P)
Sweep == \E pts \in Sweeps, multiprocessing \in BOOLEAN : getBsweep(ColA, pts, multiprocessing)

NextField == AddOne \/ RemoveLast \/ Shift \/ Turn \/ Field \/ Sweep
SpecField == Init /\ [][NextField]_vars

\* the registry with the duplicate check enabled in every call (the default)
ConstructChecked == \E args \in ArgTuples : Collection(ColA, args, TRUE)
ConstructOtherChecked == \E args \in SrcTuples : Collection(ColB, args, TRUE)
AddChecked == \E args \in ArgTuples : addSources(ColA, args, TRUE)

NextChecked == ConstructChecked \/ ConstructOtherChecked \/ AddChecked \/ Remove
SpecChecked == Init /\ [][NextChecked]_vars

\* ------------------------------------------------------------------ claims
\* C1 (uniqueness): when every construction and addition is made with the
\* duplicate check enabled, no Source occurs twice in a sources list, and a
\* Source handed to a construction or addition that returned occurs exactly
\* once in the receiver's list.
C1_Unique ==
    /\ \A c \in Col : \A s \in Src : Count(s, sources[c]) <= 1
    /\ (last.op \in {"Collection", "addSources"} /\ last.status = "ok") =>
           \A i \in 1..Len(last.args) :
               last.args[i].t = "src" => Count(last.args[i].v[1], sources[last.col]) = 1

\* an already-present Source was added again and occurs once
C1_Witness ==
    /\ last.op = "addSources" /\ last.status = "ok"
    /\ last.args = <<SrcArg(1), SrcArg(1)>>
    /\ Len(sources[ColA]) >= 2
    /\ Count(1, sources[ColA]) = 1

\* The entries of input that an addition to cur appends: all of them when the
\* check is off; otherwise, in input's order, those not in cur, each once.
RECURSIVE FreshFrom(_, _, _)
FreshFrom(cur, input, i) ==
    IF i > Len(input) THEN <<>>
    ELSE IF (\E j \in 1..Len(cur) : cur[j] = input[i]) \/ (\E j \in 1..(i - 1) : input[j] = input[i])
         THEN FreshFrom(cur, input, i + 1)
         ELSE <<input[i]>> \o FreshFrom(cur, input, i + 1)

Fresh(cur, input, dupWarning) == IF dupWarning THEN FreshFrom(cur, input, 1) ELSE input

\* the members a Collection or list argument stands for, in the current state
MembersOf(arg) == IF arg.t = "col" THEN sources[arg.v[1]] ELSE arg.v

\* C2 (flattening): adding one Collection or list appends its members, in its
\* order (those the duplicate check lets through); constructing from one builds
\* the list from them; Collection(Collection(a,b), c) holds [a,b,c]; and after
\* every call each entry of every sources list is a Source, never a Collection.
C2_Flattening ==
    [][ /\ (/\ last'.op = "addSources" /\ last'.status = "ok" /\ Len(last'.args) = 1
            /\ last'.args[1].t \in {"col", "list"})
           => sources'[last'.col] =
                  sources[last'.col] \o Fresh(sources[last'.col], MembersOf(last'.args[1]),
                                              last'.dupWarning)
        /\ (/\ last'.op = "Collection" /\ last'.status = "ok" /\ Len(last'.args) = 1
            /\ last'.args[1].t \in {"col", "list"})
           => sources'[last'.col] = Fresh(<<>>, MembersOf(last'.args[1]), last'.dupWarning)
        /\ (/\ last'.op = "Collection" /\ last'.col = ColA
            /\ last'.args = <<ColArg(ColB), SrcArg(3)>> /\ sources[ColB] = <<1, 2>>)
           => sources'[ColA] = <<1, 2, 3>>
        /\ \A c \in Col : \A i \in 1..Len(sources'[c]) : sources'[c][i] \in Src
      ]_vars

\* Collection(Collection(a,b), c) was built
C2_Witness ==
    /\ last.op = "Collection" /\ last.col = ColA /\ last.status = "ok"
    /\ last.args = <<ColArg(ColB), SrcArg(3)>>
    /\ sources[ColB] = <<1, 2>>
    /\ sources[ColA] = <<1, 2, 3>>

\* C9 (removal by index): removeSource(i) with an int i in range
\* (-n <= i < n for a list of n entries) returns the entry at that index and
\* leaves the list without it, one entry shorter, the others in place;
\* out of range (any i when n = 0) it raises IndexError and leaves the list as
\* it was.
C9_RemoveByIndex ==
    [][ (last'.op = "removeSource" /\ last'.ref.t = "int") =>
          LET c == last'.col
              n == Len(sources[c])
              i == last'.ref.n
              k == IF i >= 0 THEN i + 1 ELSE n + i + 1
          IN  IF -n <= i /\ i < n
              THEN /\ last'.status = "ok"
                   /\ last'.ret = RefVal(sources[c][k])
                   /\ Len(sources'[c]) = n - 1
                   /\ \A j \in 1..(n - 1) :
                          sources'[c][j] = IF j < k THEN sources[c][j] ELSE sources[c][j + 1]
              ELSE /\ last'.status = "raised" /\ last'.err = "IndexError"
                   /\ sources' = sources
      ]_vars

\* an entry that is not the last was removed through a negative index
C9_Witness ==
    /\ last.op = "removeSource" /\ last.ref = IntRef(-2) /\ last.status = "ok"
    /\ last.ret.kind = "ref"
    /\ Len(sources[ColA]) = 2

\* C10 as stated (removal by identity): removeSource(s) with a member s returns
\* s and leaves a list in which s is no longer present; with a non-member it
\* raises ValueError and leaves the list as it was.
C10_RemovedIsGone ==
    [][ (last'.op = "removeSource" /\ last'.ref.t = "src") =>
          LET c == last'.col
              s == last'.ref.n
          IN  IF \E j \in 1..Len(sources[c]) : sources[c][j] = s
              THEN /\ last'.status = "ok"
                   /\ last'.ret = RefVal(s)
                   /\ ~ \E j \in 1..Len(sources'[c]) : sources'[c][j] = s
              ELSE /\ last'.status = "raised" /\ last'.err = "ValueError"
                   /\ sources' = sources
      ]_vars

\* C10 (amended): removeSource(s) with a member s returns s and removes the
\* first entry that is s, leaving every other entry (later occurrences of s
\* included) in place; with a non-member it raises ValueError and leaves the
\* list as it was.
C10_RemoveFirst ==
    [][ (last'.op = "removeSource" /\ last'.ref.t = "src") =>
          LET c == last'.col
              s == last'.ref.n
              n == Len(sources[c])
          IN  IF \E j \in 1..n : sources[c][j] = s
              THEN /\ last'.status = "ok"
                   /\ last'.ret = RefVal(s)
                   /\ \E k \in 1..n :
                        /\ sources[c][k] = s
                        /\ \A j \in 1..(k - 1) : sources[c][j] # s
                        /\ Len(sources'[c]) = n - 1
                        /\ \A j \in 1..(n - 1) :
                             sources'[c][j] = IF j < k THEN sources[c][j] ELSE sources[c][j + 1]
              ELSE /\ last'.status = "raised" /\ last'.err = "ValueError"
                   /\ sources' = sources
      ]_vars

\* a Source that occurred more than once was removed and is still present
C10_Witness ==
    /\ last.op = "removeSource" /\ last.ref = SrcRef(1) /\ last.status = "ok"
    /\ last.ret = RefVal(1)
    /\ \E j \in 1..Len(sources[ColA]) : sources[ColA][j] = 1

\* the sum over the sources in S of (occurrences in list) * (component k of
\* the source's own field at P)
RECURSIVE FieldSum(_, _, _, _)
FieldSum(S, list, P, k) ==
    IF S = {} THEN 0
    ELSE LET s == CHOOSE x \in S : TRUE
         IN  Count(s, list) * SourceGetB(position, orientation, s, P).vec[k]
             + FieldSum(S \ {s}, list, P, k)

\* C3 (additivity): getB(P) on a collection of one or more members returns the
\* 3-vector whose components are the sums of the members' own fields at P
\* under their current pose, each counted once per occurrence in the list.
C3_Additivity ==
    (last.op = "getB" /\ Len(sources[last.col]) >= 1) =>
        LET list == sources[last.col]
            P == last.pts[1]
        IN  last.ret = VecVal(<<FieldSum(Src, list, P, 1), FieldSum(Src, list, P, 2),
                                FieldSum(Src, list, P, 3)>>)

\* getB was called on a collection of two different sources in different poses
C3_Witness ==
    /\ last.op = "getB" /\ last.ret.kind = "vec"
    /\ Len(sources[ColA]) >= 2
    /\ sources[ColA][1] # sources[ColA][2]
    /\ position[sources[ColA][1]] # position[sources[ColA][2]]
    /\ orientation[sources[ColA][1]] # Identity

\* C4 as stated (empty collection): getB on a collection without members
\* returns the 3-vector [0,0,0].
C4_EmptyIsZeroVector ==
    (last.op = "getB" /\ sources[last.col] = <<>>) => last.ret = VecVal(Zero3)

\* C5 as stated (sweep ordering): getBsweep(points) returns one vector per
\* point, the i-th being what getB(points[i]) returns.
C5_SweepMatchesGetB ==
    (last.op = "getBsweep" /\ last.status = "ok") =>
        /\ last.ret.kind = "list"
        /\ Len(last.ret.list) = Len(last.pts)
        /\ \A i \in 1..Len(last.pts) :
               last.ret.list[i] = GetB(sources[last.col], position, orientation, last.pts[i])

\* f applied k times to x, for the two pose updates of a rotation
RECURSIVE RotateTimes(_, _, _, _, _)
RotateTimes(k, v, angle, axis, pivot) ==
    IF k = 0 THEN v ELSE RotateTimes(k - 1, rotateVector(v, angle, axis, pivot), angle, axis, pivot)

RECURSIVE ComposeTimes(_, _, _, _)
ComposeTimes(k, M, angle, axis) ==
    IF k = 0 THEN M ELSE ComposeTimes(k - 1, composeOrientation(M, angle, axis), angle, axis)

\* C6 (self-anchored rotation): rotate(angle, axis) without an anchor leaves
\* the position of every source as it was and composes the orientation of each
\* member with the incremental rotation, once per entry of the list that is the
\* member; the sources outside the list keep their orientation.
C6_SelfAnchored ==
    [][ (last'.op = "rotate" /\ last'.anchor.self) =>
          /\ position' = position
          /\ \A s \in Src :
               orientation'[s] = ComposeTimes(Count(s, sources[last'.col]), orientation[s],
                                              last'.angle, last'.axis)
      ]_vars

\* a member away from the origin was rotated about itself
C6_Witness ==
    /\ last.op = "rotate" /\ last.anchor.self
    /\ \E s \in Range(sources[ColA]) :
         /\ position[s] # Zero3
         /\ orientation[s] # Identity

\* C7 (explicit-anchor rotation): rotate(angle, axis, anchor=P) takes every
\* member's position to rotateVector(position, angle, axis, P), the same P for
\* all, and composes its orientation with the incremental rotation, once per
\* entry of the list that is the member; two sources at the origin with angle 0
\* rotated by 90 about [0,1,0] with anchor [1,0,0] end at [1,0,1] with the
\* orientation of angle 90 about [0,1,0].
C7_ExplicitAnchor ==
    [][ (last'.op = "rotate" /\ ~last'.anchor.self) =>
          LET list == sources[last'.col] IN
          /\ \A s \in Src :
               /\ position'[s] = RotateTimes(Count(s, list), position[s], last'.angle,
                                             last'.axis, last'.anchor.p)
               /\ orientation'[s] = ComposeTimes(Count(s, list), orientation[s],
                                                 last'.angle, last'.axis)
          /\ (/\ list = <<1, 2>>
              /\ \A s \in {1, 2} : position[s] = <<0, 0, 0>> /\ orientation[s] = Identity
              /\ last'.angle = 90 /\ last'.axis = <<0, 1, 0>> /\ last'.anchor.p = <<1, 0, 0>>)
             => \A s \in {1, 2} :
                  /\ position'[s] = <<1, 0, 1>>
                  /\ orientation'[s] = <<<<0, 0, -1>>, <<0, 1, 0>>, <<1, 0, 0>>>>
      ]_vars

\* the example of the docstring: both sources end at [1,0,1], turned by 90 about y
C7_Witness ==
    /\ last.op = "rotate" /\ last.anchor = PointAnchor(<<1, 0, 0>>)
    /\ last.angle = 90 /\ last.axis = <<0, 1, 0>>
    /\ sources[ColA] = <<1, 2>>
    /\ \A s \in {1, 2} : position[s] = <<1, 0, 1>> /\ orientation[s] = getRotMat(90, <<0, 1, 0>>)

\* C8 as stated (move): after move(d) every member's position is its position
\* before the call plus d, and no orientation changes.
C8_MovedOnce ==
    [][ last'.op = "move" =>
          /\ \A s \in Range(sources[last'.col]) :
                 position'[s] = VecAdd(position[s], last'.pts[1])
          /\ orientation' = orientation
      ]_vars

\* C8 (amended): after move(d) every source's position is its position before
\* the call plus d once per entry of the list that is the source (d for a
\* member that occurs once, nothing for a source outside the list), and no
\* orientation changes.
C8_MovedPerEntry ==
    [][ last'.op = "move" =>
          /\ \A s \in Src :
                 position'[s] = VecAdd(position[s],
                                       Scale(Count(s, sources[last'.col]), last'.pts[1]))
          /\ orientation' = orientation
      ]_vars

\* a collection holding one source twice and another once was moved
C8_Witness ==
    /\ last.op = "move"
    /\ \E s \in Range(sources[ColA]) : Count(s, sources[ColA]) = 2
    /\ \E s \in Range(sources[ColA]) : Count(s, sources[ColA]) = 1

\* ------------------------------------------------- failing evaluations
\* points that are, or become after a move, the position of a source
HitPoints == {<<0, 0, 0>>, <<1, 1, 1>>, <<1, 0, 1>>}
HitSweeps == {<<p>> : p \in HitPoints} \cup {<<<<1, 0, 1>>, <<0, 0, 0>>>>, <<<<1, 1, 1>>, <<0, 0>>>>}

FieldHit == \E P \in HitPoints : getB(ColA, P)
SweepHit == \E pts \in HitSweeps, multiprocessing \in BOOLEAN : getBsweep(ColA, pts, multiprocessing)
ShiftOne == \E s \in Pair : /\ nops < MaxOps
                           /\ nops' = nops + 1
                           /\ position' = SourceMove(position, s, <<1, 1, 1>>)
                           /\ last' = Call("Source.move", s, "ok", "", NoVal, <<>>, FALSE, NoRef,
                                           <<<<1, 1, 1>>>>)
                           /\ UNCHANGED <<sources, orientation>>

\* one collection built from single sources, whose members are moved one by
\* one, evaluated at points where a member's evaluation raises
NextHit == AddOne \/ ShiftOne \/ Shift \/ FieldHit \/ SweepHit
SpecHit == Init /\ [][NextHit]_vars

\* C11 (all-or-nothing evaluation): when the evaluation of a member raises in
\* getB or getBsweep (on valid points), the call raises that error and returns
\* nothing, and leaves the sources lists, the positions and the orientations
\* as they were.
C11_AllOrNothing ==
    [][ (/\ last'.op \in {"getB", "getBsweep"}
         /\ \A i \in 1..Len(last'.pts) : Len(last'.pts[i]) = 3
         /\ \E s \in Range(sources[last'.col]) :
              \E i \in 1..Len(last'.pts) : last'.pts[i] = position[s])
        => /\ last'.status = "raised"
           /\ last'.err = "FieldEvaluationError"
           /\ last'.ret = NoVal
           /\ sources' = sources /\ position' = position /\ orientation' = orientation
      ]_vars

\* a sweep over two points raised because one member fails at the second point
\* while another member fails at neither
C11_Witness ==
    /\ last.op = "getBsweep" /\ last.status = "raised" /\ last.err = "FieldEvaluationError"
    /\ last.pts = <<<<1, 0, 1>>, <<0, 0, 0>>>>
    /\ \E s \in Range(sources[ColA]) : position[s] = <<0, 0, 0>>
    /\ \E s \in Range(sources[ColA]) : position[s] = <<1, 1, 1>>

\* ------------------------------------------------------ order of members
OrderArgs == {<<SrcArg(s)>> : s \in Src}
             \cup {<<ListArg(<<1, 2>>), SrcArg(3)>>, <<SrcArg(2), BadArg>>}
OrderRefs == {IntRef(1), IntRef(-1), IntRef(MaxLen), SrcRef(2)}

AddSome == \E args \in OrderArgs : addSources(ColA, args, TRUE)
AddAgain == addSources(ColA, <<SrcArg(2)>>, FALSE)
RemoveSome == \E ref \in OrderRefs : removeSource(ColA, ref)
FieldOnce == getB(ColA, <<1, 0, 1>>)
SweepOnce == getBsweep(ColA, <<<<1, 0, 1>>, <<0, 0, 0>>>>, FALSE)

\* every operation of a collection, on one collection
NextOrder == AddSome \/ AddAgain \/ RemoveSome \/ Shift \/ Turn \/ FieldOnce \/ SweepOnce
SpecOrder == Init /\ [][NextOrder]_vars

\* list q without its k-th entry, the others in their order
Without(q, k) == [i \in 1..(Len(q) - 1) |-> IF i < k THEN q[i] ELSE q[i + 1]]

\* C12 (order preservation): addSources leaves the existing members where they
\* are and puts new ones after them; a removeSource that succeeds deletes one
\* entry and leaves the others in their order, one that raises leaves the
\* list as it was; move, rotate, getB and getBsweep leave the list as it was;
\* no operation touches the list of another collection.
C12_InsertionOrder ==
    [][ LET c == last'.col
            old == sources[c]
            new == sources'[c] IN
        /\ last'.op = "addSources"
             => /\ Len(new) >= Len(old)
                /\ SubSeq(new, 1, Len(old)) = old
                /\ \A d \in Col \ {c} : sources'[d] = sources[d]
        /\ last'.op = "removeSource"
             => /\ last'.status = "ok" => \E k \in 1..Len(old) : new = Without(old, k)
                /\ last'.status = "raised" => new = old
                /\ \A d \in Col \ {c} : sources'[d] = sources[d]
        /\ last'.op \in {"move", "rotate", "getB", "getBsweep"} => sources' = sources
      ]_vars

\* the middle one of three members has been removed, and the two others were
\* then moved together
C12_Witness ==
    /\ sources[ColA] = <<1, 3>>
    /\ last.op = "move" /\ last.col = ColA
    /\ position[1] = <<1, 1, 1>> /\ position[3] = <<1, 1, 1>> /\ position[2] = Zero3

\* ------------------------------------------------ add on invalid input
\* index of the first argument that is neither a Source, a Collection nor a
\* list/tuple (0: none)
FirstInvalid(args) ==
    IF \E i \in 1..Len(args) : args[i].t = "bad"
    THEN CHOOSE i \in 1..Len(args) : args[i].t = "bad" /\ \A j \in 1..(i - 1) : args[j].t # "bad"
    ELSE 0

\* base extended by the flattened contents of args[1..n], each argument's
\* members filtered by the duplicate check against the list so far; an
\* argument that is the receiver itself stands for the list so far
RECURSIVE Extended(_, _, _, _, _)
Extended(base, self, args, n, dupWarning) ==
    IF n = 0 THEN base
    ELSE LET sofar == Extended(base, self, args, n - 1, dupWarning)
             members == IF args[n].t = "col" /\ args[n].v[1] = self THEN sofar
                        ELSE MembersOf(args[n])
         IN  sofar \o Fresh(sofar, members, dupWarning)

\* C13 (non-atomic add on invalid input): when an argument of addSources or of
\* the constructor is neither a Source, a Collection nor a list/tuple, the call
\* raises AssertionError, and the sources list at that moment is the previous list
\* (empty for the constructor) extended by the flattened contents of the
\* arguments before the first invalid one; nothing of the later arguments is
\* in it.
C13_PartialAdd ==
    [][ LET k == FirstInvalid(last'.args)
            c == last'.col IN
        /\ (last'.op = "addSources" /\ k > 0)
             => /\ last'.status = "raised" /\ last'.err = "AssertionError"
                /\ sources'[c] = Extended(sources[c], c, last'.args, k - 1, last'.dupWarning)
        /\ (last'.op = "Collection" /\ k > 0)
             => /\ last'.status = "raised" /\ last'.err = "AssertionError"
                /\ last'.partial = Extended(<<>>, 0, last'.args, k - 1, last'.dupWarning)
      ]_vars

\* addSources(other, invalid, 3) has raised: the members of the other
\* collection are in, source 3 is not
C13_Witness ==
    /\ last.op = "addSources" /\ last.status = "raised"
    /\ last.args = <<ColArg(ColB), BadArg, SrcArg(3)>>
    /\ sources[ColB] = <<1, 2>>
    /\ sources[ColA] = <<1, 2>>

=============================================================================
